---- MODULE Spec2Model ----
(***************************************************************************)
(* Customer endpoint of assignments/doctype/customer/customer.py:          *)
(* create_customer, update_customer and the manage_customer dispatcher,    *)
(* over the persisted Customer documents and their three child tables.     *)
(*                                                                         *)
(* A payload is a Python dict: a function whose DOMAIN is the set of keys  *)
(* that are present.  JSON scalars are written as strings; None is Null.   *)
(* A persisted child row is a record; is_primary is stored as an integer.  *)
(***************************************************************************)
EXTENDS Integers, Sequences, FiniteSets, TLC

VARIABLES
    db,     \* persisted (committed) documents: customer name -> Customer
    before, \* the persisted documents as they were when the call began
    call,   \* the call in progress: entry point, request verb, data
    resp    \* what the caller observes: status, exception kind, callee, row origins

vars == <<db, before, call, resp>>

-----------------------------------------------------------------------------
(* Python values *)

Null == "None"

\* Python truthiness of a scalar: None and "" are falsy
Truthy(v) == v \notin {Null, ""}

\* dict.get(key, default)
Get(d, k, default) == IF k \in DOMAIN d THEN d[k] ELSE default

\* frappe.utils.cint: text or number to integer, anything unparsable to 0
cint(v) == CASE v = "1" -> 1
             [] v = "0" -> 0
             [] OTHER   -> 0

\* an optional value: <<>> is "not there", <<v>> is v
Opt(k, o) == IF o = <<>> THEN <<>> ELSE (k :> o[1])

-----------------------------------------------------------------------------
(* Exception kinds and the class hierarchy of frappe.exceptions *)

NoExc == "none"

ExcParent(k) == CASE k = "DoesNotExistError"     -> "ValidationError"
                  [] k = "UniqueValidationError" -> "ValidationError"
                  [] k = "ValidationError"       -> "Exception"
                  [] k = "DuplicateEntryError"   -> "NameError"
                  [] k = "NameError"             -> "Exception"
                  [] k = "AttributeError"        -> "Exception"
                  [] OTHER                       -> "Exception"

\* isinstance(e, cls) for an exception of kind k
IsA(k, cls) ==
    LET p1 == ExcParent(k)
        p2 == ExcParent(p1)
    IN  k # NoExc /\ cls \in {k, p1, p2, "Exception"}

-----------------------------------------------------------------------------
(* Format checks of frappe.utils *)

ValidEmailAddresses == {"john@gmail.com", "jane@gmail.com", "john.updated@gmail.com"}

ValidPhoneNumbers == {"123456789", "987654321"}

\* validate_email_address(s): the address when well formed, "" otherwise
validate_email_address(s) == IF s \in ValidEmailAddresses THEN s ELSE ""

\* validate_phone_number(s): whether s matches the phone pattern
validate_phone_number(s) == s \in ValidPhoneNumbers

-----------------------------------------------------------------------------
(* Sequences *)

\* the k-th smallest element of a set of indices
Nth(I, k) == CHOOSE i \in I : Cardinality({j \in I : j < i}) = k - 1

\* the subsequence of s at the indices I, in order
Pick(s, I) ==
    LET J == I \cap DOMAIN s
    IN  [k \in 1..Cardinality(J) |-> s[Nth(J, k)]]

Range(s) == {s[i] : i \in DOMAIN s}

\* positions at which a key of ks occurs for the first time (dict insertion order)
FirstOcc(ks) == {i \in DOMAIN ks : \A j \in 1..(i - 1) : ks[j] # ks[i]}

\* the last position of key k in ks: the entry a dict comprehension keeps
LastIdx(ks, k) == CHOOSE i \in DOMAIN ks : ks[i] = k /\ \A j \in (i + 1)..Len(ks) : ks[j] # k

-----------------------------------------------------------------------------
(* Documents.  An in-memory child row is [rec, src]: rec the field values, *)
(* src the position of the persisted row it was loaded from, 0 when it was *)
(* appended by this call.                                                  *)

NewRow(r) == [rec |-> r, src |-> 0]

Loaded(rows) == [i \in DOMAIN rows |-> [rec |-> rows[i], src |-> i]]

Recs(mem) == [i \in DOMAIN mem |-> mem[i].rec]

Srcs(mem) == [i \in DOMAIN mem |-> mem[i].src]

\* Customer.validate: the exception it raises, NoExc when the document is valid.
\* fmt is what evaluating email.email_address on a child row does: the row has a
\* field email, so the read either yields a value or raises AttributeError.
EmailFormatOutcomes == {"value", "AttributeError"}

AddressInvalid(a) ==
    \/ ~Truthy(a.address_line)
    \/ ~Truthy(a.city)
    \/ ~Truthy(a.state)
    \/ ~Truthy(a.country)
    \/ ~Truthy(a.pincode)

\* validate with the email loop stopping after the first row
validate_FirstEmailOnly(doc, fmt) ==
    IF \E i \in DOMAIN doc.email \cap {1} :
          ~Truthy(validate_email_address(doc.email[i].rec.email))
    THEN IF fmt = "AttributeError" THEN "AttributeError" ELSE "ValidationError"
    ELSE IF \E i \in DOMAIN doc.phone_number :
                ~validate_phone_number(doc.phone_number[i].rec.phone_number)
    THEN "ValidationError"
    ELSE IF \E i \in DOMAIN doc.address : AddressInvalid(doc.address[i].rec)
    THEN "ValidationError"
    ELSE NoExc

validate(doc, fmt) ==
    IF \E i \in DOMAIN doc.email : ~Truthy(validate_email_address(doc.email[i].rec.email))
    THEN IF fmt = "AttributeError" THEN "AttributeError" ELSE "ValidationError"
    ELSE IF \E i \in DOMAIN doc.phone_number :
                ~validate_phone_number(doc.phone_number[i].rec.phone_number)
    THEN "ValidationError"
    ELSE IF \E i \in DOMAIN doc.address : AddressInvalid(doc.address[i].rec)
    THEN "ValidationError"
    ELSE NoExc

\* the unique index on the email column of the Customer Email table: a row written
\* by this call may not repeat an email of another customer or of another row of
\* the document
UniqueViolation(d, name, doc) ==
    \E i \in DOMAIN doc.email :
        /\ doc.email[i].src = 0
        /\ \/ \E c \in DOMAIN d \ {name} : \E j \in DOMAIN d[c].email :
                  d[c].email[j].email = doc.email[i].rec.email
           \/ \E j \in DOMAIN doc.email \ {i} :
                  doc.email[j].rec.email = doc.email[i].rec.email

\* what the store holds for a document once it is written
Stored(doc) ==
    [ salutation   |-> doc.salutation,
      sales_person |-> doc.sales_person,
      email        |-> Recs(doc.email),
      phone_number |-> Recs(doc.phone_number),
      address      |-> Recs(doc.address) ]

NoOrigin == [email |-> <<>>, phone_number |-> <<>>, address |-> <<>>]

Origin(doc) ==
    [ email        |-> Srcs(doc.email),
      phone_number |-> Srcs(doc.phone_number),
      address      |-> Srcs(doc.address) ]

\* the outcome of a command: exception kind observed, store afterwards, row origins
Raised(k, d) == [exc |-> k, db |-> d, origin |-> NoOrigin]

Done(d, doc) == [exc |-> NoExc, db |-> d, origin |-> Origin(doc)]

-----------------------------------------------------------------------------
(* frappe.throw *)

\* frappe.throw(msg, exc) with exc an exception class: raises exc(msg)
throw(cls) == cls

\* frappe.throw(msg, exc=e) with e a caught exception: raises e with the new message
rethrow(k) == k

-----------------------------------------------------------------------------
(* create_customer *)

EmailRow(addr, e) ==
    [email |-> addr, is_primary |-> cint(Get(e, "is_primary", "0"))]

PhoneRow(num, p) ==
    [phone_number |-> num, is_primary |-> cint(Get(p, "is_primary", "0"))]

AddressRow(a) ==
    [ address_line |-> Get(a, "address_line", Null),
      city         |-> Get(a, "city", Null),
      state        |-> Get(a, "state", Null),
      country      |-> Get(a, "country", Null),
      pincode      |-> Get(a, "pincode", Null) ]

\* the append loops of create_customer: every entry of the list becomes a row
CreateEmails(emails) ==
    [i \in DOMAIN emails |-> NewRow(EmailRow(Get(emails[i], "email_address", Null), emails[i]))]

CreatePhones(phones) ==
    [i \in DOMAIN phones |-> NewRow(PhoneRow(Get(phones[i], "phone_number", Null), phones[i]))]

CreateAddresses(addresses) ==
    [i \in DOMAIN addresses |-> NewRow(AddressRow(addresses[i]))]

CreateAddressOk(a) ==
    /\ Truthy(Get(a, "address_line", Null))
    /\ Truthy(Get(a, "city", Null))
    /\ Truthy(Get(a, "pincode", Null))

CreateDoc(payload) ==
    [ customer_name |-> Get(payload, "customer_name", Null),
      salutation    |-> Get(payload, "salutation", Null),
      sales_person  |-> Get(payload, "sales_person", Null),
      email         |-> CreateEmails(Get(payload, "emails", <<>>)),
      phone_number  |-> CreatePhones(Get(payload, "phone_numbers", <<>>)),
      address       |-> CreateAddresses(Get(payload, "addresses", <<>>)) ]

\* customer_doc.insert: validate, then the parent row, then the child rows
insert(d, doc, fmt) ==
    IF validate(doc, fmt) # NoExc THEN Raised(validate(doc, fmt), d)
    ELSE IF doc.customer_name \in DOMAIN d THEN Raised("DuplicateEntryError", d)
    ELSE IF UniqueViolation(d, doc.customer_name, doc) THEN Raised("UniqueValidationError", d)
    ELSE Done((doc.customer_name :> Stored(doc)) @@ d, doc)

\* the try block of create_customer
CreateTry(d, payload, fmt) ==
    LET emails    == Get(payload, "emails", <<>>)
        phones    == Get(payload, "phone_numbers", <<>>)
        addresses == Get(payload, "addresses", <<>>)
    IN  IF ~Truthy(Get(payload, "customer_name", Null))
        THEN Raised(throw("ValidationError"), d)
        ELSE IF \E i \in DOMAIN emails : ~Truthy(Get(emails[i], "email_address", Null))
        THEN Raised(throw("ValidationError"), d)
        ELSE IF \E i \in DOMAIN phones : ~Truthy(Get(phones[i], "phone_number", Null))
        THEN Raised(throw("ValidationError"), d)
        ELSE IF \E i \in DOMAIN addresses : ~CreateAddressOk(addresses[i])
        THEN Raised(throw("ValidationError"), d)
        ELSE insert(d, CreateDoc(payload), fmt)

\* the except clauses of create_customer without the one for DuplicateEntryError
CreateExcept_NoDuplicateClause(k) ==
    IF IsA(k, "ValidationError") THEN rethrow(k)
    ELSE throw("ValidationError")

\* the except clauses of create_customer, in their order
CreateExcept(k) ==
    IF IsA(k, "ValidationError") THEN rethrow(k)
    ELSE IF IsA(k, "UniqueValidationError") THEN rethrow(k)
    ELSE IF IsA(k, "DuplicateEntryError") THEN rethrow(k)
    ELSE throw("ValidationError")

create_customer(d, payload, fmt) ==
    LET t == CreateTry(d, payload, fmt)
    IN  IF t.exc = NoExc THEN t ELSE Raised(CreateExcept(t.exc), t.db)

-----------------------------------------------------------------------------
(* update_customer: the three reconciliations, on the in-memory document *)

EmailKeysOf(emails) == [i \in DOMAIN emails |-> Get(emails[i], "email_address", Null)]

PhoneKeysOf(phones) == [i \in DOMAIN phones |-> Get(phones[i], "phone_number", Null)]

AddressKeysOf(addresses) ==
    [i \in DOMAIN addresses |->
        << Get(addresses[i], "address_line", Null),
           Get(addresses[i], "city", Null),
           Get(addresses[i], "pincode", Null) >>]

EmailRowKeys(mem) == [i \in DOMAIN mem |-> mem[i].rec.email]

PhoneRowKeys(mem) == [i \in DOMAIN mem |-> mem[i].rec.phone_number]

AddressRowKeys(mem) ==
    [i \in DOMAIN mem |-> <<mem[i].rec.address_line, mem[i].rec.city, mem[i].rec.pincode>>]

\* the rows that `existing` maps a key to: for each key its last row
Mapped(ek) == {i \in DOMAIN ek : i = LastIdx(ek, ek[i])}

\* the rows the delete loop removes: those `existing` maps a key to that the
\* payload mapping does not hold
Removed(ek, pk) == {i \in Mapped(ek) : ek[i] \notin Range(pk)}

\* the payload positions whose key gets a new row, in the mapping's order
Inserted(ek, pk) == {i \in FirstOcc(pk) : pk[i] \notin Range(ek)}

ProcessEmails(mem, emails) ==
    LET pk   == EmailKeysOf(emails)
        ek   == EmailRowKeys(mem)
        new  == Inserted(ek, pk)
        upd  == [i \in DOMAIN mem |->
                    IF i \in Mapped(ek) /\ ek[i] \in Range(pk)
                    THEN [mem[i] EXCEPT !.rec.is_primary =
                             cint(Get(emails[LastIdx(pk, ek[i])], "is_primary", "0"))]
                    ELSE mem[i]]
    IN  upd \o [k \in 1..Cardinality(new) |->
                   NewRow(EmailRow(pk[Nth(new, k)], emails[LastIdx(pk, pk[Nth(new, k)])]))]

UpdateEmails(mem, emails) ==
    LET after == ProcessEmails(mem, emails)
    IN  Pick(after, DOMAIN after \ Removed(EmailRowKeys(mem), EmailKeysOf(emails)))

ProcessPhones(mem, phones) ==
    LET pk   == PhoneKeysOf(phones)
        ek   == PhoneRowKeys(mem)
        new  == Inserted(ek, pk)
        upd  == [i \in DOMAIN mem |->
                    IF i \in Mapped(ek) /\ ek[i] \in Range(pk)
                    THEN [mem[i] EXCEPT !.rec.is_primary =
                             cint(Get(phones[LastIdx(pk, ek[i])], "is_primary", "0"))]
                    ELSE mem[i]]
    IN  upd \o [k \in 1..Cardinality(new) |->
                   NewRow(PhoneRow(pk[Nth(new, k)], phones[LastIdx(pk, pk[Nth(new, k)])]))]

UpdatePhones(mem, phones) ==
    LET after == ProcessPhones(mem, phones)
    IN  Pick(after, DOMAIN after \ Removed(PhoneRowKeys(mem), PhoneKeysOf(phones)))

ProcessAddresses(mem, addresses) ==
    LET pk   == AddressKeysOf(addresses)
        ek   == AddressRowKeys(mem)
        new  == Inserted(ek, pk)
        upd  == [i \in DOMAIN mem |->
                    IF i \in Mapped(ek) /\ ek[i] \in Range(pk)
                    THEN [mem[i] EXCEPT
                             !.rec.state   = Get(addresses[LastIdx(pk, ek[i])], "state", Null),
                             !.rec.country = Get(addresses[LastIdx(pk, ek[i])], "country", Null)]
                    ELSE mem[i]]
    IN  upd \o [k \in 1..Cardinality(new) |->
                   NewRow(AddressRow(addresses[LastIdx(pk, pk[Nth(new, k)])]))]

UpdateAddresses(mem, addresses) ==
    LET after == ProcessAddresses(mem, addresses)
    IN  Pick(after, DOMAIN after \ Removed(AddressRowKeys(mem), AddressKeysOf(addresses)))

\* frappe.get_doc("Customer", name)
get_doc(d, name) ==
    [ customer_name |-> name,
      salutation    |-> d[name].salutation,
      sales_person  |-> d[name].sales_person,
      email         |-> Loaded(d[name].email),
      phone_number  |-> Loaded(d[name].phone_number),
      address       |-> Loaded(d[name].address) ]

\* the reconciliation also taking salutation and sales_person from the payload
UpdateDoc_SetsProfile(doc, payload) ==
    [ doc EXCEPT
        !.salutation   = Get(payload, "salutation", Null),
        !.sales_person = Get(payload, "sales_person", Null),
        !.email        = UpdateEmails(doc.email, Get(payload, "emails", <<>>)),
        !.phone_number = UpdatePhones(doc.phone_number, Get(payload, "phone_numbers", <<>>)),
        !.address      = UpdateAddresses(doc.address, Get(payload, "addresses", <<>>)) ]

UpdateDoc(doc, payload) ==
    [ doc EXCEPT
        !.email        = UpdateEmails(doc.email, Get(payload, "emails", <<>>)),
        !.phone_number = UpdatePhones(doc.phone_number, Get(payload, "phone_numbers", <<>>)),
        !.address      = UpdateAddresses(doc.address, Get(payload, "addresses", <<>>)) ]

\* save writing the rows before it validates them
save_WritesFirst(d, doc, fmt) ==
    LET written == [d EXCEPT ![doc.customer_name] = Stored(doc)]
    IN  IF validate(doc, fmt) # NoExc THEN Raised(validate(doc, fmt), written)
        ELSE IF UniqueViolation(d, doc.customer_name, doc)
        THEN Raised("UniqueValidationError", written)
        ELSE Done(written, doc)

\* customer_doc.save: validate, then write the parent row and the child rows
save(d, doc, fmt) ==
    IF validate(doc, fmt) # NoExc THEN Raised(validate(doc, fmt), d)
    ELSE IF UniqueViolation(d, doc.customer_name, doc) THEN Raised("UniqueValidationError", d)
    ELSE Done([d EXCEPT ![doc.customer_name] = Stored(doc)], doc)

\* the try block of update_customer
UpdateTry(d, payload, fmt) ==
    LET customer_name == Get(payload, "customer_name", Null)
    IN  IF customer_name \notin DOMAIN d
        THEN Raised(throw("DoesNotExistError"), d)
        ELSE save(d, UpdateDoc(get_doc(d, customer_name), payload), fmt)

\* the except clauses of update_customer raising the default class for everything
UpdateExcept_DefaultClass(k) == throw("ValidationError")

\* the except clauses of update_customer, in their order
UpdateExcept(k) ==
    IF IsA(k, "DoesNotExistError") THEN rethrow(k)
    ELSE IF IsA(k, "ValidationError") THEN rethrow(k)
    ELSE IF IsA(k, "UniqueValidationError") THEN rethrow(k)
    ELSE throw("ValidationError")

update_customer(d, payload, fmt) ==
    LET t == UpdateTry(d, payload, fmt)
    IN  IF t.exc = NoExc THEN t ELSE Raised(UpdateExcept(t.exc), t.db)

-----------------------------------------------------------------------------
(* manage_customer.  data is <<>> for None and <<payload>> otherwise; the  *)
(* outcome also names the operation that was called.                       *)

Called(o, name) == [exc |-> o.exc, db |-> o.db, origin |-> o.origin, called |-> name]

\* manage_customer treating every verb but POST as PUT
manage_customer_PutByDefault(d, method, data, fmt) ==
    IF data = <<>> \/ DOMAIN data[1] = {}
    THEN Called(Raised(throw("ValidationError"), d), "none")
    ELSE IF method = "POST" THEN Called(create_customer(d, data[1], fmt), "create_customer")
    ELSE Called(update_customer(d, data[1], fmt), "update_customer")

manage_customer(d, method, data, fmt) ==
    IF data = <<>> \/ DOMAIN data[1] = {}
    THEN Called(Raised(throw("ValidationError"), d), "none")
    ELSE IF method = "POST" THEN Called(create_customer(d, data[1], fmt), "create_customer")
    ELSE IF method = "PUT" THEN Called(update_customer(d, data[1], fmt), "update_customer")
    ELSE Called(Raised(throw("ValidationError"), d), "none")

-----------------------------------------------------------------------------
(* Inputs *)

\* the most child entries (emails, phones and addresses together) of a payload
MaxEntries == 2

\* the same, for the payloads of the two-customer specification
PairEntries == 1

\* the same, for the payloads sent through manage_customer
ManageEntries == 0

\* the most entries of an emails list, for the payloads of the email specification
MaxEmails == 2

Methods == {"POST", "PUT", "DELETE"}

Names == {"John Doe"}

PairNames == {"John Doe", "Jane Doe"}

NoProfile == {<<>>}

Profiles == {<<>>, [salutation |-> "Mr", sales_person |-> "Jane Doe"]}

EmailEntries ==
    { [email_address |-> "john@gmail.com", is_primary |-> "1"],
      [email_address |-> "john@gmail.com", is_primary |-> "0"],
      [email_address |-> "jane@gmail.com"],
      [email_address |-> "invalid-email", is_primary |-> "1"],
      [email_address |-> "", is_primary |-> "1"],
      [is_primary |-> "1"] }

PhoneEntries ==
    { [phone_number |-> "123456789", is_primary |-> "1"],
      [phone_number |-> "123456789"],
      [phone_number |-> "987654321", is_primary |-> "0"],
      [phone_number |-> "12-ab", is_primary |-> "1"],
      [is_primary |-> "0"] }

AddressEntries ==
    { [address_line |-> "123, Main Street", city |-> "New York", state |-> "New York",
       country |-> "USA", pincode |-> "10001"],
      [address_line |-> "123, Main Street", city |-> "New York", state |-> "NY",
       country |-> "US", pincode |-> "10001"],
      [address_line |-> "456, Main Street", city |-> "Los Angeles", state |-> "California",
       country |-> "USA", pincode |-> "90001"],
      [address_line |-> "123, Main Street", city |-> "New York",
       country |-> "USA", pincode |-> "10001"],
      [address_line |-> "123, Main Street", city |-> "New York", state |-> "New York",
       country |-> "USA"] }

PairEmailEntries ==
    { [email_address |-> "john@gmail.com", is_primary |-> "1"],
      [email_address |-> "invalid-email", is_primary |-> "1"] }

PairPhoneEntries == { [phone_number |-> "123456789", is_primary |-> "1"] }

PairAddressEntries ==
    { [address_line |-> "123, Main Street", city |-> "New York", state |-> "New York",
       country |-> "USA", pincode |-> "10001"] }

ListsUpTo(S, n) == UNION {[1..k -> S] : k \in 0..n}

\* the triples of child lists with at most n entries in all
ChildLists(EE, PE, AE, n) ==
    UNION { UNION { { <<e, p, a>> : a \in ListsUpTo(AE, n - Len(e) - Len(p)) }
                    : p \in ListsUpTo(PE, n - Len(e)) }
            : e \in ListsUpTo(EE, n) }

\* an empty list is either left out of the payload or sent as []
ListOpt(l, omit) == IF l = <<>> /\ omit THEN <<>> ELSE <<l>>

MkPayload(name, profile, c, omit) ==
    Opt("customer_name", name) @@ profile
        @@ Opt("emails", ListOpt(c[1], omit))
        @@ Opt("phone_numbers", ListOpt(c[2], omit))
        @@ Opt("addresses", ListOpt(c[3], omit))

PayloadsOf(NN, PP, CC) ==
    { MkPayload(n, pr, c, omit) :
        n \in {<<>>} \cup {<<x>> : x \in NN}, pr \in PP, c \in CC, omit \in BOOLEAN }

Payloads == PayloadsOf(Names, NoProfile, ChildLists(EmailEntries, PhoneEntries, AddressEntries, MaxEntries))

PairPayloads ==
    PayloadsOf(PairNames, Profiles,
               ChildLists(PairEmailEntries, PairPhoneEntries, PairAddressEntries, PairEntries))

ManagePayloads ==
    PayloadsOf(Names, NoProfile, ChildLists(EmailEntries, PhoneEntries, AddressEntries, ManageEntries))

\* payloads whose emails list is long and whose other lists are short
EmailChildLists ==
    { <<e, p, <<>>>> :
        e \in ListsUpTo(EmailEntries, MaxEmails),
        p \in {<<>>, <<[phone_number |-> "123456789", is_primary |-> "1"]>>} }

EmailPayloads == PayloadsOf(Names, NoProfile, EmailChildLists)

PairManagePayloads ==
    PayloadsOf(PairNames, Profiles,
               ChildLists(PairEmailEntries, PairPhoneEntries, PairAddressEntries, ManageEntries))

-----------------------------------------------------------------------------
(* The state machine *)

Idle == [entry |-> "idle", method |-> Null, data |-> <<>>]

NoResp == [status |-> "idle", exc |-> NoExc, called |-> "none", origin |-> NoOrigin]

Init ==
    /\ db = <<>>
    /\ before = <<>>
    /\ call = Idle
    /\ resp = NoResp

\* a call runs to its end: the store and the caller's view after it
Respond(entry, method, data, o) ==
    /\ db' = o.db
    /\ before' = db
    /\ call' = [entry |-> entry, method |-> method, data |-> data]
    /\ resp' = [ status |-> IF o.exc = NoExc THEN "ok" ELSE "error",
                 exc    |-> o.exc,
                 called |-> o.called,
                 origin |-> o.origin ]

CreateCustomer(P) ==
    /\ call.entry = "idle"
    /\ \E p \in P, fmt \in EmailFormatOutcomes :
          Respond("create_customer", Null, <<p>>,
                  Called(create_customer(db, p, fmt), "create_customer"))

UpdateCustomer(P) ==
    /\ call.entry = "idle"
    /\ \E p \in P, fmt \in EmailFormatOutcomes :
          Respond("update_customer", Null, <<p>>,
                  Called(update_customer(db, p, fmt), "update_customer"))

ManageCustomer(P) ==
    /\ call.entry = "idle"
    /\ \E m \in Methods, data \in {<<>>} \cup {<<p>> : p \in P}, fmt \in EmailFormatOutcomes :
          Respond("manage_customer", m, data, manage_customer(db, m, data, fmt))

\* the caller has the response; the next request may come
Return ==
    /\ call.entry # "idle"
    /\ call' = Idle
    /\ resp' = NoResp
    /\ before' = db
    /\ UNCHANGED db

Next ==
    \/ CreateCustomer(Payloads)
    \/ UpdateCustomer(Payloads)
    \/ ManageCustomer(ManagePayloads)
    \/ Return

Spec == Init /\ [][Next]_vars

PairNext ==
    \/ CreateCustomer(PairPayloads)
    \/ UpdateCustomer(PairPayloads)
    \/ ManageCustomer(PairManagePayloads)
    \/ Return

PairSpec == Init /\ [][PairNext]_vars

EmailNext ==
    \/ CreateCustomer(EmailPayloads)
    \/ UpdateCustomer(EmailPayloads)
    \/ ManageCustomer(EmailPayloads)
    \/ Return

EmailSpec == Init /\ [][EmailNext]_vars

-----------------------------------------------------------------------------
(* Vocabulary of the properties *)

\* the payload of the call, and the customer it names
Payload == call.data[1]

Target == Get(Payload, "customer_name", Null)

IsCreate == resp.called = "create_customer"

IsUpdate == resp.called = "update_customer"

Succeeded == resp.status = "ok"

Failed == resp.status = "error"

DesiredEmails == Get(Payload, "emails", <<>>)

DesiredPhones == Get(Payload, "phone_numbers", <<>>)

DesiredAddresses == Get(Payload, "addresses", <<>>)

EmailKey(e) == Get(e, "email_address", Null)

PhoneKey(p) == Get(p, "phone_number", Null)

AddressKey(a) == <<Get(a, "address_line", Null), Get(a, "city", Null), Get(a, "pincode", Null)>>

StoredAddressKey(r) == <<r.address_line, r.city, r.pincode>>

StoredEmailKeys(c) == {c.email[i].email : i \in DOMAIN c.email}

StoredPhoneKeys(c) == {c.phone_number[i].phone_number : i \in DOMAIN c.phone_number}

StoredAddressKeys(c) == {StoredAddressKey(c.address[i]) : i \in DOMAIN c.address}

\* the entries of a payload list that carry the key k
Carrying(list, Key(_), k) == {i \in DOMAIN list : Key(list[i]) = k}

Last(I) == CHOOSE i \in I : \A j \in I : j <= i

-----------------------------------------------------------------------------
(* C1: after a successful update_customer the identity keys persisted for  *)
(* the customer are, for each child type, exactly the identity keys of the *)
(* payload's list of that type.                                            *)
C1_ReconciliationComplete ==
    (IsUpdate /\ Succeeded) =>
        /\ StoredEmailKeys(db[Target]) = {EmailKey(e) : e \in Range(DesiredEmails)}
        /\ StoredPhoneKeys(db[Target]) = {PhoneKey(p) : p \in Range(DesiredPhones)}
        /\ StoredAddressKeys(db[Target]) = {AddressKey(a) : a \in Range(DesiredAddresses)}

(* C2: update_customer is idempotent: after a successful update, the same  *)
(* payload applied again succeeds and leaves the persisted state as it is. *)
C2_UpdateIdempotent ==
    (IsUpdate /\ Succeeded) =>
        \A fmt \in EmailFormatOutcomes :
            LET again == update_customer(db, Payload, fmt)
            IN  again.exc = NoExc /\ again.db = db

(* C4: when a payload list names an identity key more than once and the    *)
(* command succeeds, exactly one record is persisted for that key, and its *)
(* mutable attributes are those of the last payload entry with the key.    *)
C4_DuplicateKeyCollapse ==
    ((IsCreate \/ IsUpdate) /\ Succeeded) =>
        LET c == db[Target]
        IN  /\ \A i \in DOMAIN DesiredEmails :
                  LET same == Carrying(DesiredEmails, EmailKey, EmailKey(DesiredEmails[i]))
                      rows == {j \in DOMAIN c.email : c.email[j].email = EmailKey(DesiredEmails[i])}
                  IN  Cardinality(same) >= 2 =>
                        /\ Cardinality(rows) = 1
                        /\ \A j \in rows : c.email[j].is_primary =
                               cint(Get(DesiredEmails[Last(same)], "is_primary", "0"))
            /\ \A i \in DOMAIN DesiredPhones :
                  LET same == Carrying(DesiredPhones, PhoneKey, PhoneKey(DesiredPhones[i]))
                      rows == {j \in DOMAIN c.phone_number :
                                  c.phone_number[j].phone_number = PhoneKey(DesiredPhones[i])}
                  IN  Cardinality(same) >= 2 =>
                        /\ Cardinality(rows) = 1
                        /\ \A j \in rows : c.phone_number[j].is_primary =
                               cint(Get(DesiredPhones[Last(same)], "is_primary", "0"))
            /\ \A i \in DOMAIN DesiredAddresses :
                  LET same == Carrying(DesiredAddresses, AddressKey, AddressKey(DesiredAddresses[i]))
                      rows == {j \in DOMAIN c.address :
                                  StoredAddressKey(c.address[j]) = AddressKey(DesiredAddresses[i])}
                  IN  Cardinality(same) >= 2 =>
                        /\ Cardinality(rows) = 1
                        /\ \A j \in rows :
                              /\ c.address[j].state =
                                    Get(DesiredAddresses[Last(same)], "state", Null)
                              /\ c.address[j].country =
                                    Get(DesiredAddresses[Last(same)], "country", Null)

(* C10: a child list the update payload leaves out counts as empty: after  *)
(* a successful update_customer the customer has no persisted record of a  *)
(* type the payload omits, and the types it supplies hold their own keys.  *)
C10_OmittedListMeansEmpty ==
    (IsUpdate /\ Succeeded) =>
        /\ IF "emails" \in DOMAIN Payload
           THEN StoredEmailKeys(db[Target]) = {EmailKey(e) : e \in Range(Payload.emails)}
           ELSE db[Target].email = <<>>
        /\ IF "phone_numbers" \in DOMAIN Payload
           THEN StoredPhoneKeys(db[Target]) = {PhoneKey(p) : p \in Range(Payload.phone_numbers)}
           ELSE db[Target].phone_number = <<>>
        /\ IF "addresses" \in DOMAIN Payload
           THEN StoredAddressKeys(db[Target]) = {AddressKey(a) : a \in Range(Payload.addresses)}
           ELSE db[Target].address = <<>>

(* C5: every persisted record whose identity key the payload list also   *)
(* names survives a successful update_customer as the same record, with    *)
(* its identity fields unchanged and its mutable fields set to the         *)
(* payload's values.                                                       *)
C5_NoUnintendedLoss ==
    (IsUpdate /\ Succeeded) =>
        LET old == before[Target]
            new == db[Target]
        IN  /\ \A i \in DOMAIN old.email :
                  LET same == Carrying(DesiredEmails, EmailKey, old.email[i].email)
                  IN  same # {} =>
                        \E j \in DOMAIN new.email :
                            /\ resp.origin.email[j] = i
                            /\ new.email[j].email = old.email[i].email
                            /\ new.email[j].is_primary =
                                  cint(Get(DesiredEmails[Last(same)], "is_primary", "0"))
            /\ \A i \in DOMAIN old.phone_number :
                  LET same == Carrying(DesiredPhones, PhoneKey, old.phone_number[i].phone_number)
                  IN  same # {} =>
                        \E j \in DOMAIN new.phone_number :
                            /\ resp.origin.phone_number[j] = i
                            /\ new.phone_number[j].phone_number = old.phone_number[i].phone_number
                            /\ new.phone_number[j].is_primary =
                                  cint(Get(DesiredPhones[Last(same)], "is_primary", "0"))
            /\ \A i \in DOMAIN old.address :
                  LET same == Carrying(DesiredAddresses, AddressKey, StoredAddressKey(old.address[i]))
                  IN  same # {} =>
                        \E j \in DOMAIN new.address :
                            /\ resp.origin.address[j] = i
                            /\ StoredAddressKey(new.address[j]) = StoredAddressKey(old.address[i])
                            /\ new.address[j].state =
                                  Get(DesiredAddresses[Last(same)], "state", Null)
                            /\ new.address[j].country =
                                  Get(DesiredAddresses[Last(same)], "country", Null)

-----------------------------------------------------------------------------
(* C3: a create_customer or update_customer that fails leaves the          *)
(* persisted state exactly as it was before the call.                      *)
C3_AllOrNothing ==
    ((IsCreate \/ IsUpdate) /\ Failed) => db = before

\* an update that failed after the in-memory document had already been changed:
\* the phone rows were reconciled, then the save was refused
C3_Witness ==
    /\ IsUpdate
    /\ Failed
    /\ Target \in DOMAIN before
    /\ Recs(UpdateDoc(get_doc(before, Target), Payload).phone_number)
          # before[Target].phone_number
    /\ db[Target].phone_number = before[Target].phone_number

(* C6: update_customer for a customer_name with no persisted Customer      *)
(* fails, the caller observes DoesNotExistError, and no Customer is made.  *)
C6_UpdateOfMissingCustomer ==
    (IsUpdate /\ Target \notin DOMAIN before) =>
        /\ Failed
        /\ resp.exc = "DoesNotExistError"
        /\ db = before

\* an update naming a customer that is not persisted while another one is
C6_Witness ==
    /\ IsUpdate
    /\ Target \in PairNames
    /\ Target \notin DOMAIN before
    /\ DOMAIN before # {}
    /\ resp.exc = "DoesNotExistError"

-----------------------------------------------------------------------------
(* C7 *)

ConflictKinds == {"DuplicateEntryError", "UniqueValidationError"}

NameTaken == Target \in DOMAIN before

EmailTaken ==
    \E e \in Range(DesiredEmails) : \E c \in DOMAIN before \ {Target} :
        EmailKey(e) \in StoredEmailKeys(before[c])

\* the payload passes the field checks of create_customer and of Customer.validate
WellFormed ==
    /\ Truthy(Target)
    /\ \A e \in Range(DesiredEmails) : EmailKey(e) \in ValidEmailAddresses
    /\ \A p \in Range(DesiredPhones) : PhoneKey(p) \in ValidPhoneNumbers
    /\ \A a \in Range(DesiredAddresses) :
          \A f \in {"address_line", "city", "state", "country", "pincode"} :
              Truthy(Get(a, f, Null))

(* C7, as claimed: create_customer for a customer_name that exists, or     *)
(* with an email another customer owns, fails with a conflict error and    *)
(* changes nothing persisted.                                              *)
C7_ConflictOnCreate ==
    (IsCreate /\ (NameTaken \/ EmailTaken)) =>
        /\ Failed
        /\ resp.exc \in ConflictKinds
        /\ db = before

(* C7, amended: create_customer with a payload that passes validation, for *)
(* a customer_name that exists or with an email another customer owns,     *)
(* fails with a conflict error (DuplicateEntryError for the name, else     *)
(* UniqueValidationError); a payload that does not pass validation fails   *)
(* as a ValidationError whatever exists; nothing persisted changes.        *)
C7_ConflictOnValidCreate ==
    (IsCreate /\ (NameTaken \/ EmailTaken)) =>
        /\ Failed
        /\ db = before
        /\ WellFormed =>
              resp.exc = IF NameTaken THEN "DuplicateEntryError" ELSE "UniqueValidationError"
        /\ ~WellFormed => resp.exc = "ValidationError"

\* a well-formed create for a name that is taken, the customer holding child rows
C7_Witness ==
    /\ IsCreate
    /\ WellFormed
    /\ NameTaken
    /\ before[Target].email # <<>>
    /\ DesiredEmails # <<>>
    /\ resp.exc = "DuplicateEntryError"

-----------------------------------------------------------------------------
(* C8: manage_customer calls create_customer exactly for POST and          *)
(* update_customer exactly for PUT, with the payload it was given; for any *)
(* other verb, and for absent or empty data whatever the verb, it fails    *)
(* with ValidationError, calls neither and changes nothing persisted.      *)
C8_Dispatch ==
    call.entry = "manage_customer" =>
        LET given == call.data # <<>> /\ DOMAIN call.data[1] # {}
        IN  /\ resp.called = "create_customer" <=> (given /\ call.method = "POST")
            /\ resp.called = "update_customer" <=> (given /\ call.method = "PUT")
            /\ resp.called = "create_customer" =>
                  \E fmt \in EmailFormatOutcomes :
                      LET o == create_customer(before, call.data[1], fmt)
                      IN  o.exc = resp.exc /\ o.db = db
            /\ resp.called = "update_customer" =>
                  \E fmt \in EmailFormatOutcomes :
                      LET o == update_customer(before, call.data[1], fmt)
                      IN  o.exc = resp.exc /\ o.db = db
            /\ (~given \/ call.method \notin {"POST", "PUT"}) =>
                  /\ resp.called = "none"
                  /\ Failed
                  /\ resp.exc = "ValidationError"
                  /\ db = before

\* a request with a payload that would create a customer, under another verb
C8_Witness ==
    /\ call.entry = "manage_customer"
    /\ call.method = "DELETE"
    /\ call.data # <<>>
    /\ Truthy(Get(call.data[1], "customer_name", Null))
    /\ Get(call.data[1], "customer_name", Null) \notin DOMAIN before
    /\ resp.called = "none"
    /\ resp.exc = "ValidationError"

-----------------------------------------------------------------------------
(* C9: a create_customer or update_customer whose emails list holds an     *)
(* entry with no email_address, an empty one or an ill-formed one fails    *)
(* with a ValidationError, wherever the entry stands in the list.  An      *)
(* exception is a ValidationError when its class is ValidationError or     *)
(* derives from it, as DoesNotExistError does.                             *)
BadEmail(e) == ~Truthy(EmailKey(e)) \/ EmailKey(e) \notin ValidEmailAddresses

C9_EmailValidation ==
    ((IsCreate \/ IsUpdate) /\ \E e \in Range(DesiredEmails) : BadEmail(e)) =>
        /\ Failed
        /\ IsA(resp.exc, "ValidationError")
        /\ db = before

\* an update of a persisted customer whose last email entry is the ill-formed one
C9_Witness ==
    /\ IsUpdate
    /\ Target \in DOMAIN before
    /\ Len(DesiredEmails) = 2
    /\ ~BadEmail(DesiredEmails[1])
    /\ Truthy(EmailKey(DesiredEmails[2]))
    /\ BadEmail(DesiredEmails[2])
    /\ resp.exc = "ValidationError"

-----------------------------------------------------------------------------
(* C11: no customer's persisted emails hold two records with the same      *)
(* email, no persisted phones two records with the same phone_number, no   *)
(* persisted addresses two records with the same (address_line, city,      *)
(* pincode).                                                               *)
NoRepeat(ks) == \A i, j \in DOMAIN ks : ks[i] = ks[j] => i = j

C11_IdentityUnique ==
    \A c \in DOMAIN db :
        /\ NoRepeat([i \in DOMAIN db[c].email |-> db[c].email[i].email])
        /\ NoRepeat([i \in DOMAIN db[c].phone_number |-> db[c].phone_number[i].phone_number])
        /\ NoRepeat([i \in DOMAIN db[c].address |-> StoredAddressKey(db[c].address[i])])

-----------------------------------------------------------------------------
(* C12 *)

\* the payload cut down to the customer's name and one of its lists
Only(list) == [k \in DOMAIN Payload \cap {"customer_name", list} |-> Payload[k]]

\* the store with the customer's other two collections emptied
OnlyEmail == [before EXCEPT ![Target].phone_number = <<>>, ![Target].address = <<>>]

OnlyPhone == [before EXCEPT ![Target].email = <<>>, ![Target].address = <<>>]

OnlyAddress == [before EXCEPT ![Target].email = <<>>, ![Target].phone_number = <<>>]

(* C12: update_customer changes nothing but the three child collections of *)
(* the customer it names: no customer appears or disappears, every other   *)
(* customer is as before, the named customer keeps its salutation and      *)
(* sales_person whatever the payload supplies, and after a successful      *)
(* update each child collection is what the update of that collection      *)
(* alone, from its own payload list and its own persisted list, yields.    *)
C12_UpdateFrame ==
    IsUpdate =>
        /\ DOMAIN db = DOMAIN before
        /\ \A c \in DOMAIN before \ {Target} : db[c] = before[c]
        /\ Target \in DOMAIN before =>
              /\ db[Target].salutation = before[Target].salutation
              /\ db[Target].sales_person = before[Target].sales_person
        /\ Succeeded =>
              \A fmt \in EmailFormatOutcomes :
                  LET e == update_customer(OnlyEmail, Only("emails"), fmt)
                      p == update_customer(OnlyPhone, Only("phone_numbers"), fmt)
                      a == update_customer(OnlyAddress, Only("addresses"), fmt)
                  IN  /\ e.exc = NoExc /\ e.db[Target].email = db[Target].email
                      /\ p.exc = NoExc /\ p.db[Target].phone_number = db[Target].phone_number
                      /\ a.exc = NoExc /\ a.db[Target].address = db[Target].address

\* a successful update whose payload supplies a salutation the customer does not
\* have and changes its child rows, while another customer holds rows of its own
C12_Witness ==
    /\ IsUpdate
    /\ Succeeded
    /\ "salutation" \in DOMAIN Payload
    /\ Payload.salutation # before[Target].salutation
    /\ db[Target] # before[Target]
    /\ \E c \in DOMAIN before \ {Target} : before[c].email # <<>>

====
